---- MODULE Spec2Model ----
(***************************************************************************)
(* PgConnectionInit (main/impl/pg_connection_init.cpp): creation of the    *)
(* database, construction of the PostgreSQL connection pool, recovery of a *)
(* dangling prepared transaction and the restore procedure of the failover *)
(* callbacks.  Every call into the driver (SOCI / libpq) either takes      *)
(* effect or throws; which of the two is a nondeterministic choice.        *)
(***************************************************************************)
EXTENDS Integers, Sequences, FiniteSets, TLC

\* ---------------------------------------------------------------- bounds
MaxPool == 2             \* largest pool_size passed to prepareConnectionPool
MaxPreparedSetting == 1  \* largest max_prepared_transactions of the server
MaxRetries == 1          \* largest K of the K-times reconnection strategy
MaxDbCalls == 2          \* calls of createDatabaseIfNotExist in one run
MaxDbNames == 2          \* database names passed to createDatabaseIfNotExist
MaxConstructions == 2    \* calls of prepareConnectionPool in one run
MaxBreaks == 2           \* connection losses during the life of one pool
MaxTextLen == 2          \* characters in a database name or a fault text
MaxValues == 2           \* values a Result can hold
MaxChain == 2            \* functions bound to one Result
SizeBits == 8            \* width of size_t in the model, in place of 64

Slots == 0 .. (MaxPool - 1)
NoSlot == -1
DbNames == 1 .. MaxDbNames
\* options.dbname(): the database the pool connects to
PoolDb == 1

VARIABLES
  \* ---- the PostgreSQL server
  max_prepared_transactions, \* server setting read by SHOW
  preparedTx,                \* TRUE iff "prepared_block"+dbname is prepared
  databases,                 \* name -> rows of pg_database with that datname
  \* ---- createDatabaseIfNotExist, per calling thread
  callers,                   \* the threads that call it
  dbpc,                      \* position inside the call
  dbname,                    \* argument dbname
  size,                      \* local int size (result of SELECT count)
  dbResult,                  \* result of the thread's last finished call
  dbBefore,                  \* databases when the thread's last call started
  dbFault,                   \* the driver call of the last call that threw
  dbPrev,                    \* name and result of the thread's call before
  dbCalls,                   \* calls started so far
  \* ---- prepareConnectionPool
  pc,                        \* position inside the call
  pool_size,                 \* argument pool_size
  i,                         \* loop variable of the current loop
  open,                      \* slot -> session of the pool is open
  scratch,                   \* pool slot leased by soci::session sql
  enable_prepared_transactions,
  probed,                    \* preparedTransactionsAvailable has returned
  probeFault,                \* the SHOW query of the probe threw
  noticeArg,                 \* slot -> arg given to PQsetNoticeProcessor
  callbacks,                 \* slot -> failover callbacks registered
  holder,                    \* FailoverCallbackHolder: sequence of callbacks
  statements,                \* slot -> prepared statements compiled
  stmtLog,                   \* statements issued during the construction
  restoreLog,                \* statements issued by restore procedures
  warnings,                  \* "rollback on creation has failed" warnings
  rollbackResult,            \* last result of rollbackPrepared
  connection_index,          \* static size_t connection_index
  strategiesCreated,         \* calls of reconnection_strategy_factory.create()
  result,                    \* what prepareConnectionPool gave the caller
  wrapperFlag,               \* capability flag stored in the PoolWrapper
  preparedTxBefore,          \* preparedTx when the construction started
  constructions,             \* calls of prepareConnectionPool so far
  faults,                    \* stages of this construction where a call threw
  \* ---- failover (after construction)
  K,                         \* attempts allowed by the strategy factory
  sessState,                 \* slot -> lifecycle state
  attempts,                  \* strategy instance -> attempts it has counted
  tries,                     \* slot -> reconnection attempts made for it
  useError,                  \* slot -> a caller got an error using it
  breaks,                    \* connection losses of the current pool
  \* ---- iroha::expected::Result
  r0,                        \* the Result a chain of binds starts from
  r,                         \* the Result the chain has reached
  chain,                     \* the functions bound one after another
  pos,                       \* how many of them operator| was applied to
  calls,                     \* function of the chain -> times it was called
  combined                   \* the last and_res / or_res: operands, result

serverVars == <<max_prepared_transactions, preparedTx, databases>>
dbVars == <<callers, dbpc, dbname, size, dbResult, dbBefore, dbFault, dbPrev,
            dbCalls>>
poolVars == <<pc, pool_size, i, open, scratch, enable_prepared_transactions,
              probed, probeFault, noticeArg, callbacks, holder, statements,
              stmtLog, restoreLog, warnings, rollbackResult,
              connection_index, strategiesCreated, result, wrapperFlag,
              preparedTxBefore, constructions, faults>>
failVars == <<K, sessState, attempts, tries, useError, breaks>>
resVars == <<r0, r, chain, pos, calls, combined>>
vars == <<serverVars, dbVars, poolVars, failVars, resVars>>

NoResult == [kind |-> "none"]
Value(v) == [kind |-> "Value", value |-> v]
Error == [kind |-> "Error"]
Exception == [kind |-> "Exception"]

AllSlots(v) == [s \in Slots |-> v]

\* the threads that may call createDatabaseIfNotExist
DbThreads == {"main", "other"}

\* state of the client before any call
\* no Result is being combined or chained
ResultIdle ==
  /\ r0 = NoResult /\ r = NoResult
  /\ chain = <<>> /\ pos = 0 /\ calls = <<>>
  /\ combined = NoResult

InitClient ==
  /\ dbpc = [p \in DbThreads |-> "idle"]
  /\ size = [p \in DbThreads |-> 0]
  /\ dbResult = [p \in DbThreads |-> NoResult]
  /\ dbBefore = [p \in DbThreads |-> 0]
  /\ dbFault = [p \in DbThreads |-> "none"]
  /\ dbPrev = [p \in DbThreads |-> [name |-> PoolDb, result |-> NoResult]]
  /\ dbCalls = 0
  /\ pc = "idle" /\ pool_size = 0 /\ i = 0
  /\ open = AllSlots(FALSE)
  /\ scratch = NoSlot
  /\ enable_prepared_transactions = FALSE
  /\ probed = FALSE /\ probeFault = FALSE
  /\ noticeArg = AllSlots("none")
  /\ callbacks = AllSlots(0)
  /\ holder = <<>>
  /\ statements = AllSlots(FALSE)
  /\ stmtLog = <<>>
  /\ restoreLog = {}
  /\ warnings = 0
  /\ rollbackResult = NoResult
  /\ connection_index = 0
  /\ strategiesCreated = 0
  /\ result = NoResult
  /\ wrapperFlag = FALSE
  /\ preparedTxBefore = FALSE
  /\ constructions = 0
  /\ faults = {}
  /\ sessState = AllSlots("Disconnected")
  /\ attempts = AllSlots(0)
  /\ tries = AllSlots(0)
  /\ useError = AllSlots(FALSE)
  /\ breaks = 0

\* pool construction and failover: the server has the setting, possibly a
\* dangling prepared transaction, and possibly the database of the options
Init ==
  /\ InitClient /\ ResultIdle
  /\ dbname = [p \in DbThreads |-> PoolDb]
  /\ callers = {}
  /\ max_prepared_transactions \in 0 .. MaxPreparedSetting
  /\ preparedTx \in BOOLEAN
  /\ (preparedTx => max_prepared_transactions > 0)
  /\ \E n \in {0, 1} :
       databases = [d \in DbNames |-> IF d = PoolDb THEN n ELSE 0]
  /\ K \in 0 .. MaxRetries

\* database creation: one thread calls createDatabaseIfNotExist on a server
\* where any of the names may exist already
InitDb ==
  /\ InitClient /\ ResultIdle
  /\ dbname = [p \in DbThreads |-> PoolDb]
  /\ callers = {"main"}
  /\ max_prepared_transactions = 0
  /\ preparedTx = FALSE
  /\ databases \in [DbNames -> {0, 1}]
  /\ K = 0

\* ------------------------------------------------ createDatabaseIfNotExist

createDatabaseIfNotExist_Call(p) ==
  /\ dbpc[p] \in {"idle", "done"}
  /\ dbCalls < MaxDbCalls
  /\ dbCalls' = dbCalls + 1
  /\ \E d \in DbNames :
       /\ dbname' = [dbname EXCEPT ![p] = d]
       /\ dbBefore' = [dbBefore EXCEPT ![p] = databases[d]]
  /\ dbPrev' = [dbPrev EXCEPT ![p] = [name |-> dbname[p],
                                      result |-> dbResult[p]]]
  /\ dbFault' = [dbFault EXCEPT ![p] = "none"]
  /\ dbResult' = [dbResult EXCEPT ![p] = NoResult]
  /\ size' = [size EXCEPT ![p] = 0]
  /\ dbpc' = [dbpc EXCEPT ![p] = "connect"]
  /\ UNCHANGED <<callers, serverVars, poolVars, resVars, failVars>>

createDatabaseIfNotExist_NoCatch(p, stage) ==
  /\ dbResult' = [dbResult EXCEPT ![p] = Exception]
  /\ dbFault' = [dbFault EXCEPT ![p] = stage]
  /\ dbpc' = [dbpc EXCEPT ![p] = "done"]

\* catch (std::exception &e): the call returns an Error
createDatabaseIfNotExist_Catch(p, stage) ==
  /\ dbResult' = [dbResult EXCEPT ![p] = Error]
  /\ dbFault' = [dbFault EXCEPT ![p] = stage]
  /\ dbpc' = [dbpc EXCEPT ![p] = "done"]

\* soci::session sql(*soci::factory_postgresql(), options_str_without_dbname)
createDatabaseIfNotExist_Connect(p) ==
  /\ dbpc[p] = "connect"
  /\ \E fault \in BOOLEAN :
       IF fault
         THEN createDatabaseIfNotExist_Catch(p, "connect")
         ELSE /\ dbpc' = [dbpc EXCEPT ![p] = "select"]
              /\ UNCHANGED <<dbResult, dbFault>>
  /\ UNCHANGED <<callers, dbname, size, dbBefore, dbPrev, dbCalls>>
  /\ UNCHANGED <<serverVars, poolVars, resVars, failVars>>

\* SELECT count(datname) FROM pg_catalog.pg_database WHERE datname = :dbname
createDatabaseIfNotExist_Select(p) ==
  /\ dbpc[p] = "select"
  /\ \E fault \in BOOLEAN :
       IF fault
         THEN createDatabaseIfNotExist_Catch(p, "select") /\ UNCHANGED size
         ELSE /\ size' = [size EXCEPT ![p] = databases[dbname[p]]]
              /\ dbpc' = [dbpc EXCEPT ![p] = "test"]
              /\ UNCHANGED <<dbResult, dbFault>>
  /\ UNCHANGED <<callers, dbname, dbBefore, dbPrev, dbCalls>>
  /\ UNCHANGED <<serverVars, poolVars, resVars, failVars>>

MustCreateAlways(sz) == TRUE

\* if (size == 0)
MustCreate(sz) == sz = 0

\* CREATE DATABASE dbname, then return makeValue(true); the statement
\* throws when the connection fails ("create") and when the server refuses
\* a name that exists ("exists")
createDatabaseIfNotExist_Create(p) ==
  /\ dbpc[p] = "test" /\ MustCreate(size[p])
  /\ \E fault \in BOOLEAN :
       IF fault
         THEN createDatabaseIfNotExist_Catch(p, "create")
              /\ UNCHANGED databases
         ELSE IF databases[dbname[p]] > 0
           THEN createDatabaseIfNotExist_Catch(p, "exists")
                /\ UNCHANGED databases
           ELSE /\ databases' = [databases EXCEPT ![dbname[p]] = @ + 1]
                /\ dbResult' = [dbResult EXCEPT ![p] = Value(TRUE)]
                /\ dbpc' = [dbpc EXCEPT ![p] = "done"]
                /\ UNCHANGED dbFault
  /\ UNCHANGED <<callers, dbname, size, dbBefore, dbPrev, dbCalls>>
  /\ UNCHANGED <<max_prepared_transactions, preparedTx, poolVars, resVars,
                 failVars>>

FoundResultCreated == Value(TRUE)

\* return expected::makeValue(false)
FoundResult == Value(FALSE)

\* size != 0: the database was found
createDatabaseIfNotExist_Exists(p) ==
  /\ dbpc[p] = "test" /\ ~MustCreate(size[p])
  /\ dbResult' = [dbResult EXCEPT ![p] = FoundResult]
  /\ dbpc' = [dbpc EXCEPT ![p] = "done"]
  /\ UNCHANGED <<callers, dbname, size, dbBefore, dbFault, dbPrev, dbCalls>>
  /\ UNCHANGED <<serverVars, poolVars, resVars, failVars>>

createDatabaseIfNotExist ==
  \/ \E p \in callers : createDatabaseIfNotExist_Call(p)
  \/ \E p \in callers : createDatabaseIfNotExist_Connect(p)
  \/ \E p \in callers : createDatabaseIfNotExist_Select(p)
  \/ \E p \in callers : createDatabaseIfNotExist_Create(p)
  \/ \E p \in callers : createDatabaseIfNotExist_Exists(p)

\* ------------------------------------------------------ the driver's log

Stmt(kind, slot, ctx) == [stmt |-> kind, slot |-> slot, ctx |-> ctx]

\* ---------------------------------------------------- pool life and death

DestroyPoolLeak(o) == o

\* ~connection_pool(): every session of the pool is closed
DestroyPool(o) == [s \in Slots |-> FALSE]

give_back_Held(poolPosition) == poolPosition

\* ~session() of sql, a session taken from the pool: the pool gets the
\* leased position back
give_back(poolPosition) == NoSlot

FailoverCallbackHolder_Kept(h) == h

\* ~FailoverCallbackHolder(): the unique_ptr failover_callback_factory is a
\* local of the try block; leaving the block releases every callback made
FailoverCallbackHolder_Destroy(h) == <<>>

\* ~FailoverCallbackHolder(), ~session() of sql, ~shared_ptr of the pool:
\* what leaving prepareConnectionPool without a PoolWrapper destroys
Unwind ==
  /\ open' = DestroyPool(open)
  /\ scratch' = give_back(scratch)
  /\ holder' = FailoverCallbackHolder_Destroy(holder)
  /\ callbacks' = AllSlots(0)
  /\ statements' = AllSlots(FALSE)
  /\ noticeArg' = AllSlots("none")
  /\ sessState' = AllSlots("Disconnected")

\* ------------------------------------------------- prepareConnectionPool

\* const int pool_size: what a caller may pass, the sizes the configuration
\* forbids (zero and below) included
IntSizes == (0 - MaxPool) .. MaxPool

\* int to size_t, at the call of initPostgresConnection (line 50) and of
\* initializeConnectionPool (line 79): the value modulo 2^width
to_size_t(n) == n % (2 ^ SizeBits)

\* std::vector::max_size() of the pool's session table: no more than half of
\* the range of size_t
max_size == 2 ^ (SizeBits - 1) - 1

connection_pool_RefusesHuge(sz) == sz > max_size

\* soci::connection_pool(size), line 29, before the try block: throws
\* soci_error for size 0, and sessions_.resize(size) throws
\* std::length_error beyond max_size
connection_pool_Refuses(sz) == sz = 0 \/ sz > max_size

prepareConnectionPool_Invoke(n) ==
  /\ pc \in {"idle", "done"} /\ result.kind # "Value"
  /\ constructions < MaxConstructions
  /\ pool_size' = n
  /\ constructions' = constructions + 1
  /\ pc' = "open" /\ i' = 0
  /\ result' = NoResult
  /\ probed' = FALSE /\ probeFault' = FALSE
  /\ enable_prepared_transactions' = FALSE
  /\ stmtLog' = <<>> /\ restoreLog' = {} /\ warnings' = 0 /\ rollbackResult' = NoResult
  /\ strategiesCreated' = 0
  /\ attempts' = AllSlots(0)
  /\ tries' = AllSlots(0)
  /\ useError' = AllSlots(FALSE)
  /\ breaks' = 0
  /\ preparedTxBefore' = preparedTx
  /\ faults' = {}
  /\ wrapperFlag' = FALSE
  /\ UNCHANGED <<open, scratch, noticeArg, callbacks, holder, statements,
                 connection_index, K, sessState>>
  /\ UNCHANGED <<serverVars, dbVars, resVars>>

\* a call with a pool size that the configuration allows
prepareConnectionPool_Call ==
  \E n \in 1 .. MaxPool : prepareConnectionPool_Invoke(n)

\* a call with any int as the pool size
prepareConnectionPool_CallAnySize ==
  \E n \in IntSizes : prepareConnectionPool_Invoke(n)

OpenNextPcShort(k, n) == "scratch"

\* for (size_t i = 0; i != pool_size; i++) in initPostgresConnection
OpenNextPc(k, n) == IF k + 1 = n THEN "scratch" ELSE "open"

\* initPostgresConnection.  The pool is made at line 29, before the try
\* block: a throw of its constructor leaves initPostgresConnection and
\* prepareConnectionPool.  Then session.open() for slot i; a throw is caught
\* at line 36, the local pool is destroyed and an Error is returned, which
\* prepareConnectionPool passes on (line 52).  The server refuses a database
\* that does not exist.
initPostgresConnection ==
  /\ pc = "open"
  /\ IF i = 0 /\ connection_pool_Refuses(to_size_t(pool_size))
       THEN /\ result' = Exception
            /\ faults' = faults \cup {"size"}
            /\ pc' = "done"
            /\ UNCHANGED <<i, open, sessState>>
       ELSE IF i = to_size_t(pool_size)
         THEN /\ pc' = "scratch"
              /\ UNCHANGED <<i, open, sessState, result, faults>>
         ELSE \E fault \in BOOLEAN :
           /\ (databases[PoolDb] = 0 => fault)
           /\ IF fault
                THEN /\ result' = Error
                     /\ faults' = faults \cup {"open"}
                     /\ open' = DestroyPool(open)
                     /\ sessState' = AllSlots("Disconnected")
                     /\ pc' = "done"
                     /\ UNCHANGED i
                ELSE /\ open' = [open EXCEPT ![i] = TRUE]
                     /\ sessState' = [sessState EXCEPT ![i] = "Connecting"]
                     /\ i' = i + 1
                     /\ pc' = OpenNextPc(i, to_size_t(pool_size))
                     /\ UNCHANGED <<result, faults>>
  /\ UNCHANGED <<pool_size, scratch, enable_prepared_transactions, probed,
                 probeFault, noticeArg, callbacks, holder, statements,
                 stmtLog, warnings, rollbackResult, connection_index,
                 strategiesCreated, wrapperFlag, preparedTxBefore,
                 constructions, K, attempts, tries, useError, breaks>>
  /\ UNCHANGED <<restoreLog, serverVars, dbVars, resVars>>

\* soci::session sql(*connection): leases the first free slot of the pool.
\* The statement stands before the try block, so a throw leaves the function.
prepareConnectionPool_Scratch ==
  /\ pc = "scratch"
  /\ \E fault \in BOOLEAN :
       IF fault
         THEN /\ result' = Exception
              /\ faults' = faults \cup {"scratch"}
              /\ open' = DestroyPool(open)
              /\ sessState' = AllSlots("Disconnected")
              /\ pc' = "done"
              /\ UNCHANGED scratch
         ELSE /\ scratch' = 0
              /\ pc' = "probe"
              /\ UNCHANGED <<result, open, sessState, faults>>
  /\ UNCHANGED <<pool_size, i, enable_prepared_transactions, probed,
                 probeFault, noticeArg, callbacks, holder, statements,
                 stmtLog, warnings, rollbackResult, connection_index,
                 strategiesCreated, wrapperFlag, preparedTxBefore,
                 constructions, K, attempts, tries, useError, breaks>>
  /\ UNCHANGED <<restoreLog, serverVars, dbVars, resVars>>

preparedTransactionsAvailableOpen(fault, prepared_txs_count) ==
  IF fault THEN TRUE ELSE prepared_txs_count # 0

\* preparedTransactionsAvailable: SHOW max_prepared_transactions into
\* prepared_txs_count; a throw gives false
preparedTransactionsAvailable(fault, prepared_txs_count) ==
  IF fault THEN FALSE ELSE prepared_txs_count # 0

prepareConnectionPool_Probe ==
  /\ pc = "probe"
  /\ \E fault \in BOOLEAN :
       /\ enable_prepared_transactions' =
            preparedTransactionsAvailable(fault, max_prepared_transactions)
       /\ probeFault' = fault
       /\ faults' = IF fault THEN faults \cup {"probe"} ELSE faults
  /\ probed' = TRUE
  /\ stmtLog' = Append(stmtLog, Stmt("SHOW", scratch, "construct"))
  /\ pc' = "connection" /\ i' = 0
  /\ UNCHANGED <<pool_size, open, scratch, noticeArg, callbacks, holder,
                 statements, warnings, rollbackResult, connection_index,
                 strategiesCreated, result, wrapperFlag, preparedTxBefore,
                 constructions, failVars>>
  /\ UNCHANGED <<restoreLog, serverVars, dbVars, resVars>>

\* catch (const std::exception &e) at line 92
prepareConnectionPool_Catch(stage) ==
  /\ result' = Error
  /\ faults' = faults \cup {stage}
  /\ pc' = "done"
  /\ Unwind

\* the stack frame of initializeConnectionPool, which holds the local log,
\* exists from the call at line 78 to its return
FrameLive == pc \in {"connection", "rollback", "ddl", "prepare"}

\* log.get() inside initialize_session, which captured log by reference: the
\* logger while the frame exists; afterwards the read is of a dead frame and
\* gives the old handle or anything else
log_get == IF FrameLive THEN {"log"} ELSE {"log", "dangling"}

HookPcAll(k) == "rollback"

\* initializeConnectionPool hands init_db to slot 0 and an empty on_init_db
\* to the slots 1 .. pool_size-1
HookPc(k) == IF k = 0 THEN "rollback" ELSE "prepare"

StrategyShared(created) == 0

\* reconnection_strategy_factory.create() is called inside
\* init_failover_callback: every callback gets the instance created for it,
\* named here by the number of instances created before it
StrategyFor(created) == created

\* initialize_session, first half, on slot i: PQsetNoticeProcessor with
\* log.get(), then on_init_connection = init_failover_callback.  When one
\* of the arguments of makeFailoverCallback throws, the other arguments may
\* or may not have been evaluated (unspecified order).
init_failover_callback ==
  /\ pc = "connection"
  /\ \E fault \in BOOLEAN :
       IF fault
         THEN /\ prepareConnectionPool_Catch("attach")
              /\ \E a \in {0, 1} : connection_index' = connection_index + a
              /\ \E b \in {0, 1} : strategiesCreated' = strategiesCreated + b
         ELSE /\ \E arg \in log_get :
                   noticeArg' = [noticeArg EXCEPT ![i] = arg]
              /\ holder' = Append(holder, [slot |-> i,
                                           strategy |->
                                             StrategyFor(strategiesCreated),
                                           logger |-> connection_index])
              /\ callbacks' = [callbacks EXCEPT ![i] = @ + 1]
              /\ strategiesCreated' = strategiesCreated + 1
              /\ connection_index' = connection_index + 1
              /\ pc' = HookPc(i)
              /\ UNCHANGED <<result, open, scratch, statements, sessState,
                             faults>>
  /\ UNCHANGED <<pool_size, i, enable_prepared_transactions, probed,
                 probeFault, stmtLog, warnings, rollbackResult, wrapperFlag,
                 preparedTxBefore, constructions, K, attempts, tries, useError, breaks>>
  /\ UNCHANGED <<restoreLog, serverVars, dbVars, resVars>>

rollbackPreparedSwallow(fault) == Value("void")

\* rollbackPrepared: ROLLBACK PREPARED 'name'; a throw becomes an Error.
\* The server refuses the statement when no such transaction is prepared.
rollbackPrepared(fault) == IF fault THEN Error ELSE Value("void")

TryRollbackAlways(enabled) == TRUE

\* try_rollback: guarded by enable_prepared_transactions
TryRollbackEnabled(enabled) == enabled

\* init_db, first statement, on slot 0: try_rollback(session)
try_rollback ==
  /\ pc = "rollback"
  /\ IF TryRollbackEnabled(enable_prepared_transactions)
       THEN \E fault \in BOOLEAN :
              /\ (~preparedTx => fault)
              /\ rollbackResult' = rollbackPrepared(fault)
              /\ preparedTx' = IF fault THEN preparedTx ELSE FALSE
              /\ warnings' = IF rollbackPrepared(fault).kind = "Error"
                               THEN warnings + 1 ELSE warnings
              /\ stmtLog' = Append(stmtLog, Stmt("ROLLBACK", i, "construct"))
              /\ faults' = IF fault THEN faults \cup {"rollback"} ELSE faults
       ELSE UNCHANGED <<rollbackResult, preparedTx, warnings, stmtLog, faults>>
  /\ pc' = "ddl"
  /\ UNCHANGED <<pool_size, i, open, scratch, enable_prepared_transactions,
                 probed, probeFault, noticeArg, callbacks, holder,
                 statements, connection_index, strategiesCreated, result,
                 wrapperFlag, preparedTxBefore, constructions, failVars>>
  /\ UNCHANGED <<restoreLog, max_prepared_transactions, databases, dbVars,
                 resVars>>

\* init_db, second statement, on slot 0: session << prepare_tables_sql
init_db ==
  /\ pc = "ddl"
  /\ \E fault \in BOOLEAN :
       IF fault
         THEN /\ prepareConnectionPool_Catch("ddl")
              /\ UNCHANGED stmtLog
         ELSE /\ stmtLog' = Append(stmtLog, Stmt("DDL", i, "construct"))
              /\ pc' = "prepare"
              /\ UNCHANGED <<result, open, scratch, holder, callbacks,
                             statements, noticeArg, sessState, faults>>
  /\ UNCHANGED <<pool_size, i, enable_prepared_transactions, probed,
                 probeFault, warnings, rollbackResult, connection_index,
                 strategiesCreated, wrapperFlag, preparedTxBefore,
                 constructions, K, attempts, tries, useError, breaks>>
  /\ UNCHANGED <<restoreLog, serverVars, dbVars, resVars>>

NextSlotPcFirstOnly(k, n) == "return"

\* the loop of initializeConnectionPool: slot 0, then i = 1 .. pool_size-1
NextSlotPc(k, n) == IF k + 1 = n THEN "return" ELSE "connection"

\* initialize_session, last statement, on slot i:
\* PostgresCommandExecutor::prepareStatements(session)
initialize_session ==
  /\ pc = "prepare"
  /\ \E fault \in BOOLEAN :
       IF fault
         THEN /\ prepareConnectionPool_Catch("prepare")
              /\ UNCHANGED <<stmtLog, i>>
         ELSE /\ statements' = [statements EXCEPT ![i] = TRUE]
              /\ sessState' = [sessState EXCEPT ![i] = "Ready"]
              /\ stmtLog' = Append(stmtLog, Stmt("PREPARE", i, "construct"))
              /\ i' = i + 1
              /\ pc' = NextSlotPc(i, to_size_t(pool_size))
              /\ UNCHANGED <<result, open, scratch, holder, callbacks,
                             noticeArg, faults>>
  /\ UNCHANGED <<pool_size, enable_prepared_transactions, probed,
                 probeFault, warnings, rollbackResult, connection_index,
                 strategiesCreated, wrapperFlag, preparedTxBefore,
                 constructions, K, attempts, tries, useError, breaks>>
  /\ UNCHANGED <<restoreLog, serverVars, dbVars, resVars>>

\* return makeValue(PoolWrapper(connection, failover_callback_factory,
\* enable_prepared_transactions)); sql is destroyed and gives its slot back
prepareConnectionPool_Return ==
  /\ pc = "return"
  /\ result' = Value("PoolWrapper")
  /\ wrapperFlag' = enable_prepared_transactions
  /\ scratch' = give_back(scratch)
  /\ pc' = "done"
  /\ UNCHANGED <<pool_size, i, open, enable_prepared_transactions, probed,
                 probeFault, noticeArg, callbacks, holder, statements,
                 stmtLog, warnings, rollbackResult, connection_index,
                 strategiesCreated, preparedTxBefore, constructions, faults,
                 failVars>>
  /\ UNCHANGED <<restoreLog, serverVars, dbVars, resVars>>

\* ~PoolWrapper(): the storage shuts down; no caller is inside a session
\* (a reconnection runs inline in the caller that uses the session)
PoolWrapper_Destroy ==
  /\ pc = "done" /\ result.kind = "Value"
  /\ \A s \in Slots : sessState[s] # "Reconnecting"
  /\ result' = NoResult
  /\ pc' = "idle"
  /\ Unwind
  /\ UNCHANGED <<faults, pool_size, i, enable_prepared_transactions, probed,
                 probeFault, stmtLog, warnings, rollbackResult,
                 connection_index, strategiesCreated, wrapperFlag,
                 preparedTxBefore, constructions, K, attempts, tries, useError, breaks>>
  /\ UNCHANGED <<restoreLog, serverVars, dbVars, resVars>>

prepareConnectionPool ==
  \/ prepareConnectionPool_Call
  \/ initPostgresConnection
  \/ prepareConnectionPool_Scratch
  \/ prepareConnectionPool_Probe
  \/ init_failover_callback
  \/ try_rollback
  \/ init_db
  \/ initialize_session
  \/ prepareConnectionPool_Return
  \/ PoolWrapper_Destroy

\* ------------------------------------------------------------- failover

\* the transport finds the connection of slot s broken while it is used
ConnectionBroken(s) ==
  /\ pc = "done" /\ result.kind = "Value"
  /\ s < pool_size /\ sessState[s] = "Ready"
  /\ breaks < MaxBreaks
  /\ breaks' = breaks + 1
  /\ sessState' = [sessState EXCEPT ![s] = "Reconnecting"]
  /\ open' = [open EXCEPT ![s] = FALSE]
  /\ statements' = [statements EXCEPT ![s] = FALSE]
  /\ noticeArg' = [noticeArg EXCEPT ![s] = "none"]
  /\ UNCHANGED <<faults, pc, pool_size, i, scratch, enable_prepared_transactions,
                 probed, probeFault, callbacks, holder, stmtLog, warnings,
                 rollbackResult, connection_index, strategiesCreated, result,
                 wrapperFlag, preparedTxBefore, constructions, K, attempts, tries,
                 useError>>
  /\ UNCHANGED <<restoreLog, serverVars, dbVars, resVars>>

\* the strategy of the K-times factory: may another attempt be made
canReconnect(used, k) == used < k

restore_on_init_connection_Attach(bound) == bound + 1

\* the on_init_connection that restore_session passes, [](auto &) {}: the
\* number of callbacks bound to the session stays as it is
restore_on_init_connection(bound) == bound

restore_session_Bare(s, fault) ==
  /\ \E arg \in log_get :
       noticeArg' = [noticeArg EXCEPT ![s] = arg]
  /\ UNCHANGED <<statements, restoreLog>>
  /\ callbacks' = [callbacks EXCEPT ![s] = restore_on_init_connection(@)]
  /\ UNCHANGED <<stmtLog, holder, strategiesCreated,
                 connection_index, preparedTx, warnings, rollbackResult>>

\* restore_session = initialize_session(s, [](auto &) {}, [](auto &) {}):
\* PQsetNoticeProcessor with log.get(), where log is a local of
\* initializeConnectionPool that initialize_session captured by reference,
\* then prepareStatements.  Both hooks are empty.
restore_session(s, fault) ==
  /\ \E arg \in log_get :
       noticeArg' = [noticeArg EXCEPT ![s] = arg]
  /\ IF fault
       THEN UNCHANGED <<statements, restoreLog>>
       ELSE /\ statements' = [statements EXCEPT ![s] = TRUE]
            /\ restoreLog' = restoreLog \cup {Stmt("PREPARE", s, "restore")}
  /\ callbacks' = [callbacks EXCEPT ![s] = restore_on_init_connection(@)]
  /\ UNCHANGED <<stmtLog, holder, strategiesCreated,
                 connection_index, preparedTx, warnings, rollbackResult>>

GiveUpNever(s) == sessState

\* the strategy denied: the callback gives the session up for good
GiveUp(s) == [sessState EXCEPT ![s] = "PermanentlyFailed"]

\* the strategy instance owned by the failover callback of slot s
StrategyOf(s) ==
  LET h == CHOOSE h \in 1 .. Len(holder) : holder[h].slot = s
  IN  holder[h].strategy

\* the failover callback of slot s: consult the strategy; if it permits,
\* open a new physical connection and run the restore procedure on it; the
\* session is Ready again when the procedure succeeds
FailoverCallback(s) ==
  /\ pc = "done" /\ result.kind = "Value"
  /\ s < pool_size /\ sessState[s] = "Reconnecting"
  /\ IF canReconnect(attempts[StrategyOf(s)], K)
       THEN /\ attempts' = [attempts EXCEPT ![StrategyOf(s)] = @ + 1]
            /\ tries' = [tries EXCEPT ![s] = @ + 1]
            /\ \E connected \in BOOLEAN :
                 /\ (databases[PoolDb] = 0 => ~connected)
                 /\ IF connected
                      THEN \E fault \in BOOLEAN :
                             /\ restore_session(s, fault)
                             /\ open' = [open EXCEPT ![s] = TRUE]
                             /\ sessState' =
                                  IF fault THEN sessState
                                  ELSE [sessState EXCEPT ![s] = "Ready"]
                      ELSE UNCHANGED <<noticeArg, open, statements, sessState,
                                       stmtLog, restoreLog, callbacks, holder,
                                       strategiesCreated, connection_index,
                                       preparedTx, warnings, rollbackResult>>
       ELSE /\ sessState' = GiveUp(s)
            /\ UNCHANGED <<attempts, tries, noticeArg, open, statements,
                           stmtLog, restoreLog, callbacks, holder,
                           strategiesCreated, connection_index, preparedTx,
                           warnings, rollbackResult>>
  /\ UNCHANGED <<pc, pool_size, i, scratch, enable_prepared_transactions,
                 probed, probeFault, result, wrapperFlag, preparedTxBefore,
                 constructions, faults, K, useError, breaks>>
  /\ UNCHANGED <<max_prepared_transactions, databases, dbVars, resVars>>

\* a caller uses a session that is PermanentlyFailed: the use returns an
\* error at once
UseFailedSession(s) ==
  /\ pc = "done" /\ result.kind = "Value"
  /\ s < pool_size /\ sessState[s] = "PermanentlyFailed"
  /\ ~useError[s]
  /\ useError' = [useError EXCEPT ![s] = TRUE]
  /\ UNCHANGED <<K, sessState, attempts, tries, breaks>>
  /\ UNCHANGED <<serverVars, dbVars, resVars, poolVars>>

Failover ==
  \/ \E s \in Slots : ConnectionBroken(s)
  \/ \E s \in Slots : FailoverCallback(s)
  \/ \E s \in Slots : UseFailedSession(s)

\* ---- the texts that cross the boundary ----

\* a text is a sequence of characters; the characters that matter are a
\* plain one, the quote, carriage return and line feed
Chars == {"a", "'", "CR", "LF"}

Texts == UNION {[1 .. n -> Chars] : n \in 0 .. MaxTextLen}

\* makeError(e): the Error alternative carrying e
makeError(e) == [kind |-> "Error", error |-> e]

\* boost::replace_if(formatted_message, boost::is_any_of("\r\n"), ' ')
formatPostgresMessage(message) ==
  [k \in 1 .. Len(message) |->
     IF message[k] \in {"CR", "LF"} THEN " " ELSE message[k]]

prepared_block_name_Quoted(d) ==
  <<"prepared_block">> \o SelectSeq(d, LAMBDA c : c # "'")

\* std::string prepared_block_name = "prepared_block" + options.dbname()
prepared_block_name(d) == <<"prepared_block">> \o d

\* "ROLLBACK PREPARED '" + prepared_block_name + "';"
RollbackStatement(name) == <<"ROLLBACK PREPARED '">> \o name \o <<"';">>

\* one call of a public operation on a database name of any text
InitText ==
  /\ InitClient /\ ResultIdle
  /\ \E d \in Texts : dbname = [p \in DbThreads |-> d]
  /\ callers = {}
  /\ max_prepared_transactions = 1
  /\ preparedTx = FALSE
  /\ databases = [d \in DbNames |-> 0]
  /\ K = 0

\* initPostgresConnection: session.open() throws e; the catch at line 36
\* returns the formatted e.what(), which prepareConnectionPool passes on
initPostgresConnection_Error ==
  /\ pc = "idle"
  /\ \E what \in Texts : result' = makeError(formatPostgresMessage(what))
  /\ pc' = "done"
  /\ faults' = {"open"}
  /\ UNCHANGED <<pool_size, i, open, scratch, enable_prepared_transactions,
                 probed, probeFault, noticeArg, callbacks, holder,
                 statements, stmtLog, restoreLog, warnings, rollbackResult,
                 connection_index, strategiesCreated, wrapperFlag,
                 preparedTxBefore, constructions>>
  /\ UNCHANGED <<serverVars, dbVars, resVars, failVars>>

\* prepareConnectionPool: a call inside the try block throws e; the catch at
\* line 92 returns e.what() as it is
prepareConnectionPool_Error ==
  /\ pc = "idle"
  /\ \E what \in Texts : result' = makeError(what)
  /\ pc' = "done"
  /\ faults' = {"ddl"}
  /\ UNCHANGED <<pool_size, i, open, scratch, enable_prepared_transactions,
                 probed, probeFault, noticeArg, callbacks, holder,
                 statements, stmtLog, restoreLog, warnings, rollbackResult,
                 connection_index, strategiesCreated, wrapperFlag,
                 preparedTxBefore, constructions>>
  /\ UNCHANGED <<serverVars, dbVars, resVars, failVars>>

\* rollbackPrepared(sql, prepared_block_name) with the name that
\* prepareConnectionPool makes of the database name: the statement is sent;
\* when it throws e the formatted e.what() is returned
rollbackPrepared_Text ==
  /\ pc = "idle"
  /\ stmtLog' = <<[stmt |-> "ROLLBACK", slot |-> 0, ctx |-> "construct",
                   text |-> RollbackStatement(
                              prepared_block_name(dbname["main"]))]>>
  /\ \E fault \in BOOLEAN, what \in Texts :
       rollbackResult' = IF fault
                           THEN makeError(formatPostgresMessage(what))
                           ELSE Value("void")
  /\ pc' = "done"
  /\ UNCHANGED <<pool_size, i, open, scratch, enable_prepared_transactions,
                 probed, probeFault, noticeArg, callbacks, holder,
                 statements, restoreLog, warnings, result, faults,
                 connection_index, strategiesCreated, wrapperFlag,
                 preparedTxBefore, constructions>>
  /\ UNCHANGED <<serverVars, dbVars, resVars, failVars>>

\* createDatabaseIfNotExist: a driver call throws e; the catch at line 138
\* returns "Connection to PostgreSQL broken: " + the formatted e.what()
createDatabaseIfNotExist_Error ==
  /\ pc = "idle"
  /\ \E what \in Texts :
       dbResult' = [dbResult EXCEPT !["main"] =
                     makeError(<<"Connection to PostgreSQL broken: ">>
                                 \o formatPostgresMessage(what))]
  /\ dbFault' = [dbFault EXCEPT !["main"] = "connect"]
  /\ pc' = "done"
  /\ UNCHANGED <<callers, dbpc, dbname, size, dbBefore, dbPrev, dbCalls>>
  /\ UNCHANGED <<pool_size, i, open, scratch, enable_prepared_transactions,
                 probed, probeFault, noticeArg, callbacks, holder,
                 statements, stmtLog, restoreLog, warnings, rollbackResult,
                 result, faults, connection_index, strategiesCreated,
                 wrapperFlag, preparedTxBefore, constructions>>
  /\ UNCHANGED <<serverVars, failVars, resVars>>

NextText ==
  \/ initPostgresConnection_Error
  \/ prepareConnectionPool_Error
  \/ rollbackPrepared_Text
  \/ createDatabaseIfNotExist_Error

SpecText == InitText /\ [][NextText]_vars

\* ---- iroha::expected::Result ----

Values == 1 .. MaxValues

\* error 0 is the one a chain can start with, error k the one that the k-th
\* function of a chain returns
Errors == 0 .. MaxChain

Results == {Value(v) : v \in Values} \cup {makeError(e) : e \in Errors}

\* a function given to operator|: a value transformer f(value) that returns
\* an unwrapped value, a Value or an Error, or a procedure f() that returns a
\* Value or an Error
Functions ==
  {[form |-> "transformer", gives |-> g] : g \in {"raw", "Value", "Error"}}
    \cup {[form |-> "procedure", gives |-> g] : g \in {"Value", "Error"}}

Chains == UNION {[1 .. n -> Functions] : n \in 1 .. MaxChain}

and_res_Other(a, b) == IF a.kind = "Value" THEN a ELSE b

\* Result::and_res: visit_in_place(*this, [res](ValueType) { return res; },
\* [](ErrorType err) { return err; })
and_res(a, b) == IF a.kind = "Value" THEN b ELSE makeError(a.error)

\* Result::or_res: visit_in_place(*this, [](ValueType val) { return val; },
\* [res](ErrorType) { return res; })
or_res(a, b) == IF a.kind = "Value" THEN Value(a.value) ELSE b

\* what the k-th function of a chain returns when it is called
Call(f, v, k) ==
  CASE f.gives = "raw" -> [kind |-> "raw", value |-> (v % MaxValues) + 1]
    [] f.gives = "Value" ->
         Value(IF f.form = "transformer" THEN (v % MaxValues) + 1 ELSE 1)
    [] f.gives = "Error" -> makeError(k)

\* BindReturnType::makeVaule: an unwrapped outcome becomes a Value, a Value
\* or a Result is passed on
makeVaule(outcome) ==
  IF outcome.kind = "raw" THEN Value(outcome.value) ELSE outcome

bind_Eager(res, f, k) ==
  IF res.kind = "Value"
    THEN [result |-> IF f.form = "transformer"
                       THEN makeVaule(Call(f, res.value, k))
                       ELSE Call(f, 0, k),
          called |-> 1]
    ELSE [result |-> makeError(res.error), called |-> 1]

\* operator|(r, f), both overloads: visit_in_place(r, value -> the outcome
\* of f, error -> makeError(e.error)); called tells how often f ran
bind(res, f, k) ==
  IF res.kind = "Value"
    THEN [result |-> IF f.form = "transformer"
                       THEN makeVaule(Call(f, res.value, k))
                       ELSE Call(f, 0, k),
          called |-> 1]
    ELSE [result |-> makeError(res.error), called |-> 0]

\* a Result and a chain of functions to bind to it
InitResult ==
  /\ InitClient
  /\ dbname = [p \in DbThreads |-> PoolDb]
  /\ callers = {}
  /\ max_prepared_transactions = 0
  /\ preparedTx = FALSE
  /\ databases = [d \in DbNames |-> 0]
  /\ K = 0
  /\ r0 \in {Value(v) : v \in Values} \cup {makeError(0)}
  /\ r = r0
  /\ chain \in Chains
  /\ pos = 0
  /\ calls = [k \in 1 .. Len(chain) |-> 0]
  /\ combined = NoResult

\* r |= f with the next function of the chain
Bind ==
  /\ pos < Len(chain)
  /\ LET b == bind(r, chain[pos + 1], pos + 1)
     IN  /\ r' = b.result
         /\ calls' = [calls EXCEPT ![pos + 1] = @ + b.called]
  /\ pos' = pos + 1
  /\ UNCHANGED <<r0, chain, combined>>
  /\ UNCHANGED <<serverVars, dbVars, poolVars, failVars>>

\* r.and_res(b)
AndRes ==
  /\ \E b \in Results :
       combined' = [kind |-> "and_res", a |-> r, b |-> b,
                    result |-> and_res(r, b)]
  /\ UNCHANGED <<r0, r, chain, pos, calls>>
  /\ UNCHANGED <<serverVars, dbVars, poolVars, failVars>>

\* r.or_res(b)
OrRes ==
  /\ \E b \in Results :
       combined' = [kind |-> "or_res", a |-> r, b |-> b,
                    result |-> or_res(r, b)]
  /\ UNCHANGED <<r0, r, chain, pos, calls>>
  /\ UNCHANGED <<serverVars, dbVars, poolVars, failVars>>

NextResult ==
  \/ Bind
  \/ AndRes
  \/ OrRes

SpecResult == InitResult /\ [][NextResult]_vars

\* who is working on the session of slot s: the scratch session sql, which
\* leased the slot at line 59 and lives until prepareConnectionPool returns;
\* initializeConnectionPool, which takes connection_pool.at(i) without a lease
\* and runs initialize_session on it; a caller inside a use of the session
\* that found the connection broken
Holders(s) ==
  (IF scratch = s THEN {"sql"} ELSE {})
    \cup (IF pc \in {"connection", "rollback", "ddl", "prepare"} /\ i = s
            THEN {"initialize_session"} ELSE {})
    \cup (IF pc = "done" /\ sessState[s] = "Reconnecting"
            THEN {"caller"} ELSE {})

\* the process builds pools one after another, each destroyed before the next
Next == prepareConnectionPool

Spec == Init /\ [][Next]_vars

\* the process builds pools one after another with any int as the pool size
NextSize ==
  \/ prepareConnectionPool_CallAnySize
  \/ initPostgresConnection
  \/ prepareConnectionPool_Scratch
  \/ prepareConnectionPool_Probe
  \/ init_failover_callback
  \/ try_rollback
  \/ init_db
  \/ initialize_session
  \/ prepareConnectionPool_Return
  \/ PoolWrapper_Destroy

SpecSize == Init /\ [][NextSize]_vars

\* the first prepareConnectionPool of the process
FirstCall == constructions = 0 /\ prepareConnectionPool_Call

\* the process builds one pool and uses it
NextLife ==
  \/ FirstCall
  \/ initPostgresConnection
  \/ prepareConnectionPool_Scratch
  \/ prepareConnectionPool_Probe
  \/ init_failover_callback
  \/ try_rollback
  \/ init_db
  \/ initialize_session
  \/ prepareConnectionPool_Return
  \/ PoolWrapper_Destroy
  \/ Failover

\* the reconnection loop runs inline in the thread that uses the session, so
\* a session that is Reconnecting keeps being worked on
SpecLife ==
  /\ Init /\ [][NextLife]_vars
  /\ \A s \in Slots : WF_vars(FailoverCallback(s))

NextDb == createDatabaseIfNotExist

SpecDb == InitDb /\ [][NextDb]_vars

\* database creation by two threads at once: createDatabaseIfNotExist is a
\* static function without a lock, so the steps of the two calls interleave
\* freely
InitRace ==
  /\ InitClient /\ ResultIdle
  /\ dbname = [p \in DbThreads |-> PoolDb]
  /\ callers = DbThreads
  /\ max_prepared_transactions = 0
  /\ preparedTx = FALSE
  /\ databases \in [DbNames -> {0, 1}]
  /\ K = 0

SpecRace == InitRace /\ [][NextDb]_vars

\* ================================================================ claims

PoolSlots == 0 .. (pool_size - 1)

\* stages whose throw ends the construction
Fatal == {"open", "scratch", "attach", "ddl", "prepare"}

Count(kind) ==
  Cardinality({k \in 1 .. Len(stmtLog) : stmtLog[k].stmt = kind})

Logged(kind, slot) ==
  \E k \in 1 .. Len(stmtLog) :
    stmtLog[k].stmt = kind /\ stmtLog[k].slot = slot

\* the pool holds exactly pool_size sessions, all open and initialised
PoolReady ==
  /\ \A s \in PoolSlots :
       /\ open[s] /\ sessState[s] = "Ready" /\ statements[s]
       /\ callbacks[s] = 1 /\ noticeArg[s] = "log"
  /\ \A s \in Slots \ PoolSlots : ~open[s] /\ sessState[s] = "Disconnected"

\* C1: when no fatal driver call throws, prepareConnectionPool returns a
\* Value; the step that returns it hands over a pool of exactly pool_size
\* sessions, all open and Ready, and a capability flag that equals
\* (max_prepared_transactions # 0) whenever the probe query did not throw.
C1_ReturnsReadyPool ==
  /\ [](pc = "done" /\ faults \cap Fatal = {} => result.kind = "Value")
  /\ [][pc = "return" =>
          /\ result'.kind = "Value"
          /\ PoolReady'
          /\ ("probe" \notin faults =>
                wrapperFlag' = (max_prepared_transactions # 0))]_vars

C1_Witness ==
  /\ pc = "done" /\ result.kind = "Value" /\ faults = {}
  /\ pool_size >= 2 /\ wrapperFlag /\ PoolReady

\* C2: when opening session k fails after the sessions 0 .. k-1 were opened,
\* the caller gets an Error, no pool and no PoolWrapper, and no session of
\* the pool is open any more.
C2_AllOrNothing ==
  (pc = "done" /\ "open" \in faults) =>
    /\ result.kind = "Error"
    /\ \A s \in Slots : ~open[s]
    /\ holder = <<>> /\ ~wrapperFlag

C2_Witness ==
  /\ pc = "done" /\ "open" \in faults /\ i >= 1 /\ pool_size >= 2
  /\ result.kind = "Error"

\* C3 as stated: a prepared transaction that existed before a successful
\* construction on a server that supports prepared transactions is gone
\* afterwards, and ROLLBACK PREPARED was issued exactly once.
C3_Original ==
  (pc = "done" /\ result.kind = "Value" /\ preparedTxBefore
     /\ max_prepared_transactions # 0) =>
    (~preparedTx /\ Count("ROLLBACK") = 1)

\* C3 amended: ROLLBACK PREPARED is issued at most once per construction,
\* and in a successful construction exactly once when the probe reported
\* support and not at all otherwise; a prepared transaction that existed
\* before is gone after a successful construction when the probe reported
\* support and the ROLLBACK PREPARED statement did not throw.
C3_RollbackOnce ==
  /\ Count("ROLLBACK") <= 1
  /\ (result.kind = "Value" =>
        Count("ROLLBACK") = IF wrapperFlag THEN 1 ELSE 0)
  /\ (result.kind = "Value" /\ preparedTxBefore /\ wrapperFlag
        /\ "rollback" \notin faults => ~preparedTx)

C3_Witness ==
  /\ pc = "done" /\ result.kind = "Value" /\ pool_size >= 2
  /\ preparedTxBefore /\ wrapperFlag /\ ~preparedTx
  /\ Count("ROLLBACK") = 1

\* C4: ROLLBACK PREPARED is issued on slot 0 only, only when the probe of
\* this construction returned true, and never by a restore procedure.
C4_RollbackOnlySlot0 ==
  /\ \A k \in 1 .. Len(stmtLog) :
       stmtLog[k].stmt = "ROLLBACK" =>
         /\ stmtLog[k].slot = 0
         /\ stmtLog[k].ctx = "construct"
         /\ probed /\ enable_prepared_transactions
  /\ \A e \in restoreLog : e.stmt # "ROLLBACK" /\ e.ctx = "restore"

C4_Witness ==
  /\ Logged("ROLLBACK", 0) /\ pool_size >= 2
  /\ \E e \in restoreLog : e.slot = 0
  /\ \E e \in restoreLog : e.slot > 0

\* C5: a rollbackPrepared that fails returns an Error, is logged as one
\* warning and does not end the construction: the DDL and the statement
\* preparation follow, and a PoolWrapper is returned when nothing else fails.
C5_RollbackFailureNotFatal ==
  "rollback" \in faults =>
    /\ rollbackResult.kind = "Error"
    /\ warnings = 1
    /\ (result.kind \in {"Error", "Exception"} => faults \cap Fatal # {})
    /\ (pc = "done" /\ faults \cap Fatal = {} =>
          /\ result.kind = "Value"
          /\ Logged("DDL", 0)
          /\ \A s \in PoolSlots : Logged("PREPARE", s))

C5_Witness ==
  /\ "rollback" \in faults /\ ~preparedTxBefore
  /\ pc = "done" /\ result.kind = "Value" /\ pool_size >= 2

\* a driver call of the thread's last createDatabaseIfNotExist lost its
\* connection
DbConnectionFault(p) == dbFault[p] \in {"connect", "select", "create"}

\* the thread's call before the last one was on the same name and did not
\* return an Error
DbRepeated(p) ==
  dbPrev[p].name = dbname[p] /\ dbPrev[p].result.kind = "Value"

\* what the last call of the thread did when it returned a Value
DbValueContract(p) ==
  /\ (dbBefore[p] = 0 => dbResult[p] = Value(TRUE))
  /\ (dbBefore[p] > 0 =>
        dbResult[p] = Value(FALSE) /\ databases[dbname[p]] = dbBefore[p])
  /\ (DbRepeated(p) => dbResult[p] = Value(FALSE))
  /\ databases[dbname[p]] = 1

\* C6 as stated: sequential calls never return an Error; a call on an absent
\* name creates the database and returns Value(true), a following call on
\* the same name returns Value(false) and changes nothing, and exactly one
\* database of the name exists afterwards.
C6_Original ==
  \A p \in callers :
    dbpc[p] = "done" => (dbResult[p].kind # "Error" /\ DbValueContract(p))

\* C6 amended: the same for the calls in which no driver call throws; and
\* in every state at most one database of each name exists.
C6_Idempotent ==
  /\ \A d \in DbNames : databases[d] <= 1
  /\ \A p \in callers :
       (dbpc[p] = "done" /\ ~DbConnectionFault(p)) =>
         (dbResult[p].kind = "Value" /\ DbValueContract(p))

C6_Witness ==
  /\ dbpc["main"] = "done" /\ dbCalls = 2 /\ dbFault["main"] = "none"
  /\ dbPrev["main"] = [name |-> dbname["main"], result |-> Value(TRUE)]
  /\ dbResult["main"] = Value(FALSE) /\ databases[dbname["main"]] = 1

\* C7: when the admin connection cannot be opened or a statement of
\* createDatabaseIfNotExist throws, the call returns an Error, never a Value
\* and never an exception, and creates no database.
C7_FaultGivesError ==
  \A p \in callers :
    /\ dbResult[p].kind \in {"none", "Value", "Error"}
    /\ (dbpc[p] = "done" /\ dbFault[p] # "none" =>
          /\ dbResult[p].kind = "Error"
          /\ databases[dbname[p]] = dbBefore[p])
    /\ (dbpc[p] = "done" /\ dbResult[p].kind = "Value" => dbFault[p] = "none")

C7_Witness ==
  /\ dbpc["main"] = "done" /\ dbFault["main"] = "create"
  /\ dbResult["main"].kind = "Error" /\ databases[dbname["main"]] = 0

\* C8 as stated: a throw at any stage of prepareConnectionPool gives the
\* caller an Error; no exception leaves the call.
C8_NoFaultEscapes ==
  (pc = "done" /\ faults \cap Fatal # {}) => result.kind = "Error"

\* C9: preparedTransactionsAvailable returns true iff the SHOW query
\* succeeds and reports a nonzero value; a query that throws gives false
\* and ends nothing: the construction goes on to a PoolWrapper.
C9_ProbeFailClosed ==
  probed =>
    /\ enable_prepared_transactions =
         (~probeFault /\ max_prepared_transactions # 0)
    /\ (probeFault <=> "probe" \in faults)
    /\ (pc = "done" /\ faults = {"probe"} => result.kind = "Value")

C9_Witness ==
  /\ probed /\ probeFault /\ max_prepared_transactions # 0
  /\ ~enable_prepared_transactions
  /\ pc = "done" /\ result.kind = "Value"

\* C10: whenever the caller holds the PoolWrapper, the probe has returned,
\* the rollback was attempted if enabled, the DDL ran on slot 0, and every
\* slot has its failover callback attached and its statements prepared, in
\* this order on each slot.
C10_Barrier ==
  result.kind = "Value" =>
    /\ pc = "done" /\ probed
    /\ (enable_prepared_transactions => Logged("ROLLBACK", 0))
    /\ Logged("DDL", 0)
    /\ \A s \in PoolSlots :
         /\ Logged("PREPARE", s)
         /\ callbacks[s] = 1
         /\ \E h \in 1 .. Len(holder) : holder[h].slot = s
    /\ Len(holder) = pool_size
    /\ Count("PREPARE") = pool_size

C10_Witness ==
  /\ result.kind = "Value" /\ pool_size >= 2
  /\ enable_prepared_transactions /\ Logged("ROLLBACK", 0)

\* C11: a strategy bounded by K permits exactly K reconnection attempts for
\* its session and then denies: a session never has more than K attempts made
\* for it, a session that is PermanentlyFailed has had exactly K (none when
\* K = 0, so no restore ever ran for it), and the count made for a session
\* equals the count of its own strategy, which never goes down while the
\* pool lives, a successful reconnection included
C11_AttemptsWithin ==
  (pc = "done" /\ result.kind = "Value") =>
    \A s \in PoolSlots :
      /\ tries[s] <= K
      /\ tries[s] = attempts[StrategyOf(s)]
      /\ sessState[s] = "PermanentlyFailed" => tries[s] = K
      /\ (K = 0 => Stmt("PREPARE", s, "restore") \notin restoreLog)

C11_ExactlyK ==
  /\ [](C11_AttemptsWithin)
  /\ [][(pc = "done" /\ pc' = "done" /\ result'.kind = "Value") =>
          \A s \in PoolSlots :
            /\ tries'[s] >= tries[s]
            /\ (sessState[s] = "Reconnecting" /\ sessState'[s] = "Ready")
                 => tries'[s] = tries[s] + 1
            /\ (sessState[s] = "Reconnecting"
                /\ sessState'[s] = "PermanentlyFailed")
                 => (tries[s] = K /\ tries'[s] = K)]_vars

\* a session reconnected once, lost its connection again and was then
\* denied, with K = 1
C11_Witness ==
  /\ pc = "done" /\ result.kind = "Value" /\ K = 1
  /\ \E s \in PoolSlots :
       /\ sessState[s] = "PermanentlyFailed"
       /\ tries[s] = 1
       /\ Stmt("PREPARE", s, "restore") \in restoreLog

\* C12: under a bounded strategy every session that enters Reconnecting
\* reaches Ready or PermanentlyFailed; PermanentlyFailed is not left while
\* the pool lives; and a use of a PermanentlyFailed session is never blocked:
\* it can always be made and it ends with an error for the caller
C12_FailedCallerNotBlocked ==
  (pc = "done" /\ result.kind = "Value") =>
    \A s \in PoolSlots :
      /\ (sessState[s] = "PermanentlyFailed" /\ ~useError[s])
           => ENABLED UseFailedSession(s)
      /\ useError[s] => sessState[s] = "PermanentlyFailed"

C12_ReconnectionEnds ==
  /\ \A s \in Slots :
       (sessState[s] = "Reconnecting")
         ~> (sessState[s] \in {"Ready", "PermanentlyFailed"})
  /\ [][\A s \in Slots :
          (sessState[s] = "PermanentlyFailed" /\ result'.kind = "Value"
           /\ pc' = "done")
            => sessState'[s] = "PermanentlyFailed"]_vars
  /\ [](C12_FailedCallerNotBlocked)

\* a session went through Reconnecting, was given up, and a caller that used
\* it afterwards got an error
C12_Witness ==
  /\ pc = "done" /\ result.kind = "Value"
  /\ \E s \in PoolSlots :
       /\ sessState[s] = "PermanentlyFailed" /\ useError[s]
       /\ breaks >= 1

\* C13: no pool session is in use by two parties at once: in every state,
\* the construction while the scratch session is held included, each slot
\* has at most one holder
C13_ExclusiveUse ==
  \A s \in Slots : Cardinality(Holders(s)) <= 1

Sanitized(text) ==
  \A k \in 1 .. Len(text) : text[k] \notin {"CR", "LF"}

\* C14: every error message that a public operation returns holds no
\* carriage return and no line feed, whatever text the driver fault carried
C14_MessagesSanitized ==
  /\ result.kind = "Error" => Sanitized(result.error)
  /\ rollbackResult.kind = "Error" => Sanitized(rollbackResult.error)
  /\ dbResult["main"].kind = "Error" => Sanitized(dbResult["main"].error)

\* C15: the rollback statement is ROLLBACK PREPARED ' + name + '; where the
\* name is the literal prepared_block followed by the database name of the
\* options, character by character, whatever the database name holds
C15_BlockName ==
  \A k \in 1 .. Len(stmtLog) :
    LET text == stmtLog[k].text
        d == dbname["main"]
    IN  /\ Len(text) = Len(d) + 3
        /\ text[1] = "ROLLBACK PREPARED '"
        /\ text[2] = "prepared_block"
        /\ \A c \in 1 .. Len(d) : text[2 + c] = d[c]
        /\ text[Len(text)] = "';"

\* the statement was sent for a database name that holds a quote
C15_Witness ==
  /\ Len(stmtLog) = 1 /\ stmtLog[1].stmt = "ROLLBACK"
  /\ Len(dbname["main"]) = MaxTextLen
  /\ \E c \in 1 .. Len(dbname["main"]) : dbname["main"][c] = "'"

\* C16: a.and_res(b) is a's error when a holds an error and b otherwise;
\* a.or_res(b) is a's value when a holds a value and b otherwise
C16_AndOr ==
  /\ combined.kind = "and_res" =>
       /\ combined.a.kind = "Error" =>
            /\ combined.result.kind = "Error"
            /\ combined.result.error = combined.a.error
       /\ combined.a.kind = "Value" => combined.result = combined.b
  /\ combined.kind = "or_res" =>
       /\ combined.a.kind = "Value" =>
            /\ combined.result.kind = "Value"
            /\ combined.result.value = combined.a.value
       /\ combined.a.kind = "Error" => combined.result = combined.b

\* and_res of an error with a value: the error comes out
C16_Witness ==
  /\ combined.kind = "and_res"
  /\ combined.a.kind = "Error" /\ combined.b.kind = "Value"
  /\ combined.result.kind = "Error"

\* the first function among the first n of the chain that returns an error,
\* 0 when none does
FirstFailing(n) ==
  IF \E k \in 1 .. n : chain[k].gives = "Error"
    THEN CHOOSE k \in 1 .. n :
           /\ chain[k].gives = "Error"
           /\ \A j \in 1 .. (k - 1) : chain[j].gives # "Error"
    ELSE 0

C17_Chain ==
  LET k == FirstFailing(pos)
  IN  /\ r0.kind = "Error" =>
           /\ r = r0
           /\ \A j \in 1 .. Len(chain) : calls[j] = 0
      /\ (r0.kind = "Value" /\ k = 0) =>
           /\ r.kind = "Value"
           /\ \A j \in 1 .. Len(chain) : calls[j] = IF j <= pos THEN 1 ELSE 0
      /\ (r0.kind = "Value" /\ k > 0) =>
           /\ r = makeError(k)
           /\ \A j \in 1 .. Len(chain) : calls[j] = IF j <= k THEN 1 ELSE 0

\* C17: bind short-circuits.  A chain that starts from an error calls no
\* function and keeps that error; one that starts from a value calls each
\* function once, in order, up to and including the first that returns an
\* error, calls none after it, and holds that first error.  In one step
\* r | f, an error r comes out as it is with f not called, and a value r
\* gives what f returned, f called once
C17_ShortCircuit ==
  /\ [](C17_Chain)
  /\ [][pos' = pos + 1 =>
          LET f == chain[pos + 1]
          IN  /\ r.kind = "Error" => (r' = r /\ calls' = calls)
              /\ r.kind = "Value" =>
                   /\ calls' = [calls EXCEPT ![pos + 1] = 1]
                   /\ r' = IF f.gives = "Error"
                             THEN makeError(pos + 1)
                             ELSE Value(Call(f, r.value, pos + 1).value)]_vars

\* a chain from a value whose first function failed and whose later
\* functions were passed over
C17_Witness ==
  /\ r0.kind = "Value" /\ Len(chain) >= 2 /\ pos = Len(chain)
  /\ FirstFailing(pos) = 1
  /\ r = makeError(1) /\ calls[2] = 0

\* C18: a session that is Ready has the statement set compiled on its
\* current physical connection, whatever faults and reconnections came
\* before; a session comes back to Ready only in a step that compiled them
C18_ReadyHasStatements ==
  /\ [](\A s \in Slots :
          sessState[s] = "Ready" => (open[s] /\ statements[s]))
  /\ [][\A s \in Slots :
          (sessState[s] = "Reconnecting" /\ sessState'[s] = "Ready")
            => (~statements[s] /\ statements'[s]
                /\ Stmt("PREPARE", s, "restore") \in restoreLog')]_vars

\* a session lost its connection, was reconnected and is Ready again
C18_Witness ==
  /\ pc = "done" /\ result.kind = "Value"
  /\ \E s \in PoolSlots :
       /\ sessState[s] = "Ready" /\ tries[s] >= 1 /\ breaks >= 1
       /\ statements[s]
       /\ Stmt("PREPARE", s, "restore") \in restoreLog

\* C19: the DDL is applied at most once in a construction and exactly once
\* in one that succeeds; on slot 0 only; after the rollback attempt when
\* there is one; before any statement is prepared and before any other slot
\* gets its callback; and never by a restore
C19_DdlOnceSlot0 ==
  /\ Count("DDL") <= 1
  /\ result.kind = "Value" => Count("DDL") = 1
  /\ \A k \in 1 .. Len(stmtLog) :
       stmtLog[k].stmt = "DDL" =>
         /\ stmtLog[k].slot = 0
         /\ enable_prepared_transactions =>
              \E j \in 1 .. (k - 1) : stmtLog[j].stmt = "ROLLBACK"
         /\ \A j \in 1 .. (k - 1) : stmtLog[j].stmt # "PREPARE"
  /\ \A k \in 1 .. Len(stmtLog) :
       stmtLog[k].stmt = "ROLLBACK" =>
         \A j \in 1 .. (k - 1) : stmtLog[j].stmt # "DDL"
  /\ ~Logged("DDL", 0) =>
       \A s \in Slots : (s >= 1 => callbacks[s] = 0) /\ ~statements[s]
  /\ \A x \in restoreLog : x.stmt # "DDL"

\* a pool of two sessions was built with a rollback attempt and a session of
\* it was reconnected afterwards
C19_Witness ==
  /\ pc = "done" /\ result.kind = "Value" /\ pool_size >= 2
  /\ Logged("ROLLBACK", 0) /\ Logged("DDL", 0) /\ Logged("PREPARE", 1)
  /\ restoreLog # {}

\* a step in which session s lost its connection, made a reconnection
\* attempt or was given up
Acted(s) == sessState'[s] # sessState[s] \/ tries'[s] # tries[s]

\* C20: every failover callback owns its own strategy instance: create() was
\* called once for each callback attached so far, N times when a pool of N
\* sessions is returned; no two callbacks hold the same instance; and a
\* fault or reconnection of one session leaves the attempt counter of every
\* other session as it was
C20_OwnStrategy ==
  /\ [](/\ (pc # "idle" /\ faults \cap Fatal = {}) =>
             strategiesCreated = Len(holder)
        /\ result.kind = "Value" =>
             /\ strategiesCreated = pool_size
             /\ \A s \in PoolSlots :
                  \E h \in 1 .. Len(holder) : holder[h].slot = s
        /\ \A g, h \in 1 .. Len(holder) :
             holder[g].strategy = holder[h].strategy => g = h)
  /\ [][(pc = "done" /\ pc' = "done" /\ result'.kind = "Value") =>
          \A s \in PoolSlots :
            Acted(s) =>
              \A t \in PoolSlots \ {s} :
                /\ attempts'[StrategyOf(t)] = attempts[StrategyOf(t)]
                /\ tries'[t] = tries[t]]_vars

\* in a pool of two sessions one session used an attempt and the other has
\* used none
C20_Witness ==
  /\ pc = "done" /\ result.kind = "Value" /\ pool_size = 2
  /\ strategiesCreated = 2
  /\ \E s, t \in PoolSlots :
       /\ s # t
       /\ attempts[StrategyOf(s)] = 1 /\ tries[s] = 1
       /\ attempts[StrategyOf(t)] = 0 /\ sessState[t] = "Ready"

\* C21: at most one failover callback is bound to a session: every session
\* of a returned pool has exactly one callback and one entry of the holder,
\* and while the pool lives, reconnections included, no callback is bound,
\* no entry is added and no strategy instance is obtained
C21_OneCallback ==
  /\ [](/\ \A s \in Slots : callbacks[s] <= 1
        /\ result.kind = "Value" =>
             \A s \in PoolSlots :
               /\ callbacks[s] = 1
               /\ Cardinality({h \in 1 .. Len(holder) :
                                 holder[h].slot = s}) = 1)
  /\ [][(pc = "done" /\ pc' = "done" /\ result'.kind = "Value") =>
          /\ callbacks' = callbacks
          /\ holder' = holder
          /\ strategiesCreated' = strategiesCreated]_vars

\* both sessions of a pool of two were restored and each still has its one
\* callback
C21_Witness ==
  /\ pc = "done" /\ result.kind = "Value" /\ pool_size = 2
  /\ \A s \in PoolSlots :
       /\ Stmt("PREPARE", s, "restore") \in restoreLog
       /\ callbacks[s] = 1
  /\ Len(holder) = 2 /\ strategiesCreated = 2

\* C22: the child logger of the callback of slot i is named by i, the place
\* of the session in its pool, in every pool that is constructed, a second
\* or later one included
C22_LoggerNamedBySlot ==
  \A h \in 1 .. Len(holder) : holder[h].logger = holder[h].slot

\* C23: what a restore uses lives in storage that outlives
\* prepareConnectionPool: no session ever gets, as the argument of its
\* notice processor, a value read from a stack frame that was gone
C23_RestoreOwnsWhatItUses ==
  \A s \in Slots : noticeArg[s] # "dangling"

\* the two threads are each in a call, or back from one, on the same name,
\* and the name was absent when each of the calls started
Racing ==
  /\ \A p \in DbThreads : dbpc[p] # "idle" /\ dbBefore[p] = 0
  /\ dbname["main"] = dbname["other"]

BothReturned == \A p \in DbThreads : dbpc[p] = "done"

Winners == {p \in DbThreads : dbResult[p] = Value(TRUE)}

\* C24 as stated: when two concurrent calls on the same absent name have
\* returned, the database was created exactly once, one call at most
\* returned Value(true) and the other Value(false) or an Error
C24_Original ==
  (Racing /\ BothReturned) =>
    /\ databases[dbname["main"]] = 1
    /\ Cardinality(Winners) <= 1
    /\ \A p \in DbThreads \ Winners :
         dbResult[p] = Value(FALSE) \/ dbResult[p].kind = "Error"

\* C24 amended: in every interleaving the database is created at most once
\* and at most one call returns Value(true), the other Value(false) or an
\* Error; it is created exactly once, with exactly one Value(true), when no
\* driver call of the two lost its connection
C24_RaceCreatesOnce ==
  Racing =>
    /\ databases[dbname["main"]] <= 1
    /\ Cardinality(Winners) <= 1
    /\ Cardinality(Winners) = databases[dbname["main"]]
    /\ BothReturned =>
         /\ \A p \in DbThreads \ Winners :
              dbResult[p] = Value(FALSE) \/ dbResult[p].kind = "Error"
         /\ (\A p \in DbThreads : ~DbConnectionFault(p)) =>
              /\ databases[dbname["main"]] = 1
              /\ Cardinality(Winners) = 1

\* both calls saw the name absent, one created the database and the server
\* refused the CREATE DATABASE of the other
C24_Witness ==
  /\ Racing /\ BothReturned
  /\ dbResult["main"] = Value(TRUE)
  /\ dbResult["other"].kind = "Error" /\ dbFault["other"] = "exists"
  /\ size["other"] = 0

LateStages == {"attach", "ddl", "prepare"}

\* C25: a construction that failed after the sessions were opened, in the
\* callback attachment, the DDL or the statement preparation, has returned
\* an Error and no PoolWrapper, every session is closed, every failover
\* callback made so far is released and none is registered on a session
C25_LateFailureCleansUp ==
  (pc = "done" /\ faults \cap LateStages # {}) =>
    /\ result.kind = "Error" /\ ~wrapperFlag
    /\ \A s \in Slots : ~open[s] /\ callbacks[s] = 0 /\ ~statements[s]
    /\ holder = <<>>

\* statement preparation failed on slot 1 of a pool of two, after slot 0 was
\* initialised and a callback was made for each of the two sessions
C25_Witness ==
  /\ pc = "done" /\ "prepare" \in faults
  /\ pool_size = 2 /\ i = 1 /\ strategiesCreated = 2
  /\ Count("PREPARE") = 1
  /\ result.kind = "Error" /\ holder = <<>>

\* C26: once prepareConnectionPool has finished, with a PoolWrapper, with an
\* Error or with an exception, the scratch session holds no slot of the
\* pool, and every session of a returned PoolWrapper is open and free of it
C26_ScratchGivenBack ==
  (pc \in {"idle", "done"}) =>
    /\ scratch = NoSlot
    /\ result.kind = "Value" =>
         \A s \in PoolSlots : open[s] /\ "sql" \notin Holders(s)

\* a pool of two was returned after the capability probe ran on the scratch
\* session, which had leased slot 0
C26_Witness ==
  /\ pc = "done" /\ result.kind = "Value" /\ pool_size = 2
  /\ \E k \in 1 .. Len(stmtLog) : stmtLog[k] = Stmt("SHOW", 0, "construct")
  /\ scratch = NoSlot

\* C27: for every int passed as the pool size, initializeConnectionPool is
\* entered, and its assertion reached, only with a pool size above zero, and
\* slot 0 is accessed, by the scratch session or by initialize_session, only
\* when the pool has a session in slot 0
C27_AssertHolds ==
  /\ FrameLive => to_size_t(pool_size) > 0
  /\ (scratch = 0 \/ (FrameLive /\ i = 0)) =>
       (to_size_t(pool_size) >= 1 /\ open[0])

\* a call with pool size 0 is over: the constructor of the pool threw, no
\* session was made and no statement ran
C27_Witness ==
  /\ pc = "done" /\ pool_size = 0 /\ "size" \in faults
  /\ result.kind = "Exception"
  /\ stmtLog = <<>> /\ \A s \in Slots : ~open[s]

====
